---- MODULE Spec2Model ----
(***************************************************************************)
(* Verification model of the wand binding layer (wand/api.py, wand/cli.py) *)
(*                                                                         *)
(*   Spec     the Command Dispatcher: Parser.run called from two host      *)
(*            threads; one action per statement of run, native calls       *)
(*            logged per invocation, native structures kept in a heap.     *)
(*   SpecStr  the Owned-String Wrapper: c_magick_char_p values produced by *)
(*            declared calls and by reading arrays of owned strings, and   *)
(*            released through __del__.                                    *)
(*   SpecCli  Parser's constructor, set_command and __call__, which binds   *)
(*            a template and invokes run on its tokens.                    *)
(*   SpecLoad the Library Locator and Loader (find_library, load_library)  *)
(*            inside the module body of wand.api, over the environments    *)
(*            of LoadEnvs.                                                 *)
(*   SpecReg  the module bodies of wand.api and wand.cli and the use of    *)
(*            the imported modules, over libraries that lack some of the   *)
(*            declared functions (RegEnvs).                                *)
(***************************************************************************)
EXTENDS Integers, Sequences, FiniteSets, TLC

\* ------------------------------------------------------------------ bounds
\* longest token sequence handed to run
MaxArgs == 2
\* run invocations started in one behaviour (all threads together)
MaxCalls == 3
\* owned-string wrappers created in one behaviour
MaxWrappers == 2
\* native string buffers allocated in one behaviour
MaxBufs == 2
\* invocations of __del__ on one wrapper before it is collected
MaxDels == 1
\* library names the system search resolves in one environment
MaxFound == 2
\* library files that open in one environment
MaxOpenable == 2
\* declared functions the opened library lacks
MaxMissing == 1
\* import statements for wand.api executed in one behaviour
MaxImports == 2
\* calls of run, direct or through __call__, on the Parser of SpecCli
MaxInvokes == 2

\* --------------------------------------------------------------- variables
VARIABLES
    pc,              \* per thread: the statement of run it is about to execute
    arguments,       \* per thread: the parameter of the run call
    image_info,      \* per frame: local image_info (0: unbound)
    func,            \* per frame: local func ("": unbound)
    argument_count,  \* per frame: local argument_count
    c_arguments,     \* per frame: local c_arguments
    exception,       \* per frame: local exception (0: unbound)
    ok,              \* per frame: local ok (-1: unbound)
    raised,          \* per thread: the error the call ended with ("": none)
    returned,        \* per thread: the value run returned (-1: none)
    callOf,          \* per thread: number of the invocation it runs (0: none yet)
    ncalls,          \* invocations started so far
    heap,            \* native structures ever allocated, by id 1..Len(heap)
    trace,           \* per thread: native calls made by the current invocation
    wrappers,        \* c_magick_char_p instances ever created, by id
    arrays,          \* arrays of owned strings returned by native calls
    mem,             \* native string buffers ever allocated: "live" or "freed"
    relBy,           \* per buffer: the wrappers that passed it to the deallocator
    faults,          \* wrappers whose release was an invalid or a double free
    env,             \* the platform, MAGICK_HOME, the installed libraries
    ipc,             \* the statement of wand.api's module body to execute next
    sufIdx,          \* load_library: position of the loop in the suffixes
    libwand_path,    \* load_library: local libwand_path
    libmagick_path,  \* load_library: local libmagick_path
    tried_paths,     \* load_library: local tried_paths
    libwand,         \* load_library: local libwand (0: unbound)
    libmagick_h,     \* load_library: local libmagick (0: unbound)
    lookups,         \* find_library calls of this import: suffix and result
    searches,        \* names given to ctypes.util.find_library by this import
    opens,           \* ctypes.CDLL calls of this import: path and outcome
    library,         \* module global library: a handle (0: unbound)
    libmagick,       \* module global libmagick: a handle (0: unbound)
    declIdx,         \* position of the declaration pass in DeclTable
    declared,        \* names whose signature has been attached
    unavailable,     \* names the declaration pass set to None
    libc,            \* module global libc ("": unbound)
    failure,             \* the exception the import ended with
    ioerror,         \* the paths reported by load_library's IOError
    sys_modules,     \* the names under which the module is registered
    nimports,        \* import statements executed so far
    nfinds,          \* find_library calls, over all imports
    nloads,          \* ctypes.CDLL calls, over all imports
    cli,             \* wand.cli: "unimported", "ok" or the error of its import
    invokedIn,       \* registry states in which a declared function was invoked
    parser,          \* the Parser object: "none", "ready", or "failed"
    command,         \* self.command, the stored template
    bind,            \* the last constructor or set_command call and its error
    lastBound,       \* the argument of the last set_command call that returned
    inv              \* the last __call__: its keyword arguments and outcome

dvars == <<pc, arguments, image_info, func, argument_count, c_arguments,
           exception, ok, raised, returned, callOf, ncalls, heap, trace>>

svars == <<wrappers, arrays, mem, relBy, faults>>

rvars == <<env, ipc, sufIdx, libwand_path, libmagick_path, tried_paths,
           libwand, libmagick_h, lookups, searches, opens, library, libmagick,
           declIdx, declared, unavailable, libc, failure, ioerror, sys_modules,
           nimports, nfinds, nloads, cli, invokedIn>>

pvars == <<parser, command, bind, lastBound, inv>>

vars == <<dvars, svars, rvars, pvars>>

\* ------------------------------------------------------------ host values
Threads == {"t1", "t2"}

\* Parser.utilities: utility name -> native command entry point
utilities ==
    [u \in {"animate", "compare", "composite", "conjure", "convert",
            "display", "identify", "import", "mogrify", "stream"} |->
        CASE u = "animate"   -> "AnimateImageCommand"
          [] u = "compare"   -> "CompareImageCommand"
          [] u = "composite" -> "CompositeImageCommand"
          [] u = "conjure"   -> "ConjureImageCommand"
          [] u = "convert"   -> "ConvertImageCommand"
          [] u = "display"   -> "DisplayImageCommand"
          [] u = "identify"  -> "IdentifyImageCommand"
          [] u = "import"    -> "ImportImageCommand"
          [] u = "mogrify"   -> "MogrifyImageCommand"
          [] u = "stream"    -> "StreamImageCommand"]

\* A host value that can be an element of the argument list: a string, or a
\* non-string that ctypes.c_char_p rejects (a float is hashable, a list is not).
\* Values c_char_p takes as a raw address (int, None) are left out: the native
\* command's behaviour on them is undefined.
Str(s) == [kind |-> "str", val |-> s]
Elements ==
    {Str("convert"), Str("identify"), Str("a.gif"),
     [kind |-> "float", val |-> "2.5"], [kind |-> "list", val |-> "[]"]}

Last(s) == s[Len(s)]

SeqsUpTo(S, n) == UNION {[1..k -> S] : k \in 0..n}

\* The values run is called with: lists (collections.Sequence), and two values
\* that are no Sequence: a set of tokens and an integer.
Inputs ==
    {[type |-> "list", items |-> s] : s \in SeqsUpTo(Elements, MaxArgs)}
    \cup {[type |-> "set", items |-> <<Str("convert")>>],
          [type |-> "int", items |-> <<>>]}

NoInput == [type |-> "none", items |-> <<>>]

\* ----------------------------------------------------------- native side
\* One logged native call: the entry point, the structures, function pointer,
\* count, argv and metadata slot it was given, whether every structure it was
\* given was live at the call, and what it returned.
Event(fn, ii, ei, fp, n, argv, meta, live, ret) ==
    [fn |-> fn, ii |-> ii, ei |-> ei, fp |-> fp, n |-> n, argv |-> argv,
     meta |-> meta, live |-> live, ret |-> ret]

Live(h, id) == id \in 1..Len(h) /\ h[id].destroyed = 0

\* Acquire*Info: a fresh structure
Acquire(h, kind, t) ==
    Append(h, [kind |-> kind, by |-> t, call |-> callOf[t], destroyed |-> 0])

\* Destroy*Info on a structure id
Destroy(h, id) ==
    IF id \in 1..Len(h)
    THEN [h EXCEPT ![id].destroyed = @ + 1]
    ELSE h

\* ------------------------------------------------------------ Parser.run
\* The frame holding the locals of thread t's invocation: every invocation has
\* its own.
SharedFrame(t) == "t1"
Frame(t) == t

\* isinstance(arguments, collections.Sequence)
IsIterable(a) == a.type \in {"list", "set"}
IsSequence(a) == a.type = "list"

Hashable(e) == e.kind # "list"

Result(err, val) == [err |-> err, val |-> val]

\* A lookup that takes convert when there is no first token
find_utility_convert(items) ==
    IF Len(items) = 0 THEN [err |-> "", val |-> "ConvertImageCommand"]
    ELSE IF items[1].kind = "list" THEN [err |-> "TypeError", val |-> ""]
    ELSE IF items[1].kind # "str" \/ items[1].val \notin DOMAIN utilities
         THEN [err |-> "ValueError", val |-> ""]
    ELSE [err |-> "", val |-> utilities[items[1].val]]

\* find_utility(arguments[0]): the entry point, or the error raised
find_utility(items) ==
    IF Len(items) = 0 THEN Result("IndexError", "")
    ELSE IF ~Hashable(items[1]) THEN Result("TypeError", "")
    ELSE IF items[1].kind # "str" \/ items[1].val \notin DOMAIN utilities
         THEN Result("ValueError", "")
    ELSE Result("", utilities[items[1].val])

\* len(arguments)
ArgumentCountShort(a) == Len(a.items) - 1
ArgumentCount(a) == Len(a.items)

\* An array that leaves out the utility name
CharPArrayTail(items) ==
    IF \E i \in 1..Len(items) : items[i].kind # "str"
    THEN Result("TypeError", <<>>)
    ELSE Result("", [i \in 1..(Len(items) - 1) |-> items[i + 1].val])

\* An array built without converting its elements
CharPArrayLazy(items) ==
    Result("", [i \in 1..Len(items) |-> items[i].val])

\* (ctypes.c_char_p * argument_count)(*arguments)
CharPArray(items) ==
    IF \E i \in 1..Len(items) : items[i].kind # "str"
    THEN Result("TypeError", <<>>)
    ELSE Result("", [i \in 1..Len(items) |-> items[i].val])

Raise(t, err) ==
    /\ pc' = [pc EXCEPT ![t] = "done"]
    /\ raised' = [raised EXCEPT ![t] = err]

\* A sequence of statements without line 119
GotoSkipDrain(t, label) ==
    /\ pc' = [pc EXCEPT ![t] = IF label = "catch" THEN "destroy_image_info"
                                ELSE label]
    /\ UNCHANGED raised

Goto(t, label) ==
    /\ pc' = [pc EXCEPT ![t] = label]
    /\ UNCHANGED raised

Log(t, e) == trace' = [trace EXCEPT ![t] = Append(@, e)]

\* a thread enters run(a)
Call(t, a) ==
    /\ pc[t] \in {"idle", "done"}
    /\ ncalls < MaxCalls
    /\ ncalls' = ncalls + 1
    /\ callOf' = [callOf EXCEPT ![t] = ncalls + 1]
    /\ arguments' = [arguments EXCEPT ![t] = a]
    /\ pc' = [pc EXCEPT ![t] = "check"]
    /\ raised' = [raised EXCEPT ![t] = ""]
    /\ trace' = [trace EXCEPT ![t] = <<>>]
    /\ image_info' = [image_info EXCEPT ![Frame(t)] = 0]
    /\ func' = [func EXCEPT ![Frame(t)] = ""]
    /\ argument_count' = [argument_count EXCEPT ![Frame(t)] = 0]
    /\ c_arguments' = [c_arguments EXCEPT ![Frame(t)] = <<>>]
    /\ exception' = [exception EXCEPT ![Frame(t)] = 0]
    /\ ok' = [ok EXCEPT ![Frame(t)] = -1]
    /\ returned' = [returned EXCEPT ![t] = -1]
    /\ UNCHANGED <<heap, svars, rvars, pvars>>

\* lines 102-103
CheckSequence(t) ==
    /\ pc[t] = "check"
    /\ IF IsSequence(arguments[t])
       THEN Goto(t, "acquire_image_info")
       ELSE Raise(t, "TypeError")
    /\ UNCHANGED <<arguments, image_info, func, argument_count, c_arguments,
                   exception, ok, returned, callOf, ncalls, heap, trace, svars, rvars, pvars>>

\* line 105
AcquireImageInfo(t) ==
    /\ pc[t] = "acquire_image_info"
    /\ heap' = Acquire(heap, "ImageInfo", t)
    /\ image_info' = [image_info EXCEPT ![Frame(t)] = Len(heap) + 1]
    /\ Log(t, Event("AcquireImageInfo", 0, 0, "", 0, <<>>, "", TRUE, Len(heap) + 1))
    /\ Goto(t, "find_utility")
    /\ UNCHANGED <<arguments, func, argument_count, c_arguments, exception, ok,
                   returned, callOf, ncalls, svars, rvars, pvars>>

\* line 107
FindUtility(t) ==
    /\ pc[t] = "find_utility"
    /\ LET r == find_utility(arguments[t].items) IN
         IF r.err # ""
         THEN Raise(t, r.err) /\ UNCHANGED func
         ELSE Goto(t, "marshal") /\ func' = [func EXCEPT ![Frame(t)] = r.val]
    /\ UNCHANGED <<arguments, image_info, argument_count, c_arguments,
                   exception, ok, returned, callOf, ncalls, heap, trace, svars, rvars, pvars>>

\* lines 109-113
Marshal(t) ==
    /\ pc[t] = "marshal"
    /\ argument_count' =
         [argument_count EXCEPT ![Frame(t)] = ArgumentCount(arguments[t])]
    /\ LET r == CharPArray(arguments[t].items) IN
         IF r.err # ""
         THEN Raise(t, r.err) /\ UNCHANGED c_arguments
         ELSE /\ Goto(t, "acquire_exception")
              /\ c_arguments' = [c_arguments EXCEPT ![Frame(t)] = r.val]
    /\ UNCHANGED <<arguments, image_info, func, exception, ok, returned,
                   callOf, ncalls, heap, trace, svars, rvars, pvars>>

\* line 115
AcquireExceptionInfo(t) ==
    /\ pc[t] = "acquire_exception"
    /\ heap' = Acquire(heap, "ExceptionInfo", t)
    /\ exception' = [exception EXCEPT ![Frame(t)] = Len(heap) + 1]
    /\ Log(t, Event("AcquireExceptionInfo", 0, 0, "", 0, <<>>, "", TRUE,
                    Len(heap) + 1))
    /\ Goto(t, "genesis")
    /\ UNCHANGED <<arguments, image_info, func, argument_count, c_arguments,
                   ok, returned, callOf, ncalls, svars, rvars, pvars>>

\* line 117: the native command runs and reports failure (0) or success (1)
MagickCommandGenesis(t) ==
    /\ pc[t] = "genesis"
    /\ \E r \in {0, 1} :
         /\ ok' = [ok EXCEPT ![Frame(t)] = r]
         /\ Log(t, Event("MagickCommandGenesis", image_info[Frame(t)],
                         exception[Frame(t)], func[Frame(t)],
                         argument_count[Frame(t)], c_arguments[Frame(t)], "NULL",
                         Live(heap, image_info[Frame(t)])
                             /\ Live(heap, exception[Frame(t)]), r))
    /\ Goto(t, "catch")
    /\ UNCHANGED <<arguments, image_info, func, argument_count, c_arguments,
                   exception, returned, callOf, ncalls, heap, svars, rvars, pvars>>

\* line 119
CatchException(t) ==
    /\ pc[t] = "catch"
    /\ Log(t, Event("CatchException", 0, exception[Frame(t)], "", 0, <<>>, "",
                    Live(heap, exception[Frame(t)]), 0))
    /\ Goto(t, "destroy_image_info")
    /\ UNCHANGED <<arguments, image_info, func, argument_count, c_arguments,
                   exception, ok, returned, callOf, ncalls, heap, svars, rvars, pvars>>

\* line 121
DestroyImageInfo(t) ==
    /\ pc[t] = "destroy_image_info"
    /\ heap' = Destroy(heap, image_info[Frame(t)])
    /\ Log(t, Event("DestroyImageInfo", image_info[Frame(t)], 0, "", 0, <<>>, "",
                    Live(heap, image_info[Frame(t)]), 0))
    /\ Goto(t, "destroy_exception")
    /\ UNCHANGED <<arguments, image_info, func, argument_count, c_arguments,
                   exception, ok, returned, callOf, ncalls, svars, rvars, pvars>>

\* line 122
DestroyExceptionInfo(t) ==
    /\ pc[t] = "destroy_exception"
    /\ heap' = Destroy(heap, exception[Frame(t)])
    /\ Log(t, Event("DestroyExceptionInfo", 0, exception[Frame(t)], "", 0, <<>>,
                    "", Live(heap, exception[Frame(t)]), 0))
    /\ Goto(t, "return")
    /\ UNCHANGED <<arguments, image_info, func, argument_count, c_arguments,
                   exception, ok, returned, callOf, ncalls, svars, rvars, pvars>>

\* A return of the status of the last native call made
ReturnLastStatus(t) == Last(trace[t]).ret

\* return ok
ReturnValue(t) == ok[Frame(t)]

\* line 123
Return(t) ==
    /\ pc[t] = "return"
    /\ returned' = [returned EXCEPT ![t] = ReturnValue(t)]
    /\ Goto(t, "done")
    /\ UNCHANGED <<arguments, image_info, func, argument_count, c_arguments,
                   exception, ok, callOf, ncalls, heap, trace, svars, rvars, pvars>>

InitRun ==
    /\ pc = [t \in Threads |-> "idle"]
    /\ arguments = [t \in Threads |-> NoInput]
    /\ image_info = [t \in Threads |-> 0]
    /\ func = [t \in Threads |-> ""]
    /\ argument_count = [t \in Threads |-> 0]
    /\ c_arguments = [t \in Threads |-> <<>>]
    /\ exception = [t \in Threads |-> 0]
    /\ ok = [t \in Threads |-> -1]
    /\ raised = [t \in Threads |-> ""]
    /\ returned = [t \in Threads |-> -1]
    /\ callOf = [t \in Threads |-> 0]
    /\ ncalls = 0
    /\ heap = <<>>
    /\ trace = [t \in Threads |-> <<>>]

\* -------------------------------- Parser: templates and __call__ (cli.py)
\* A string is a sequence of pieces: non-whitespace text, a run of
\* whitespace, a replacement field {name}.
Word(s) == [k |-> "w", s |-> s]
Space == [k |-> "s", s |-> " "]
Field(name) == [k |-> "f", s |-> name]

\* Host values given to the constructor, to set_command and as keyword
\* arguments
TextValue(x) == [kind |-> "str", text |-> x]
IntValue(n) == [kind |-> "int", val |-> n]
ListValue(n) == [kind |-> "list", val |-> n]
NoneValue == [kind |-> "None", val |-> 0]

\* isinstance(command, basestring)
IsString(c) == c.kind = "str"

\* bool(command), the test of line 62
Truthy(c) ==
    IF c.kind = "str" THEN c.text # <<>>
    ELSE IF c.kind = "None" THEN FALSE
    ELSE c.val # 0

\* command.strip(): the leading and the trailing whitespace
RECURSIVE lstrip(_)
lstrip(x) == IF x # <<>> /\ Head(x).k = "s" THEN lstrip(Tail(x)) ELSE x

RECURSIVE rstrip(_)
rstrip(x) ==
    IF x # <<>> /\ x[Len(x)].k = "s" THEN rstrip(SubSeq(x, 1, Len(x) - 1))
    ELSE x

\* A strip that keeps trailing whitespace
stripLeading(x) == lstrip(x)

\* command.strip()
strip(x) == rstrip(lstrip(x))

\* str(value), what format puts in the place of a field
str(v) ==
    IF v.kind = "str" THEN v.text
    ELSE IF v.kind = "int" THEN <<Word(ToString(v.val))>>
    ELSE <<Word("None")>>

\* A format that leaves the template as it is
formatRaw(x, kwargs) == Result("", x)

\* self.command.format(**kwargs): every field replaced by its value, or
\* KeyError for a field without a keyword argument
RECURSIVE format(_, _)
format(x, kwargs) ==
    IF x = <<>> THEN Result("", <<>>)
    ELSE LET rest == format(Tail(x), kwargs)
             p == Head(x)
         IN  IF p.k # "f"
             THEN IF rest.err # "" THEN rest
                  ELSE Result("", <<p>> \o rest.val)
             ELSE IF p.s \notin DOMAIN kwargs THEN Result("KeyError", <<>>)
             ELSE IF rest.err # "" THEN rest
             ELSE Result("", str(kwargs[p.s]) \o rest.val)

\* the characters of a piece that is no whitespace
Chars(p) == IF p.k = "f" THEN "{" \o p.s \o "}" ELSE p.s

\* command.split(): the maximal runs of non-whitespace, in order
RECURSIVE splitFrom(_, _, _)
splitFrom(x, word, inWord) ==
    IF x = <<>> THEN (IF inWord THEN <<word>> ELSE <<>>)
    ELSE IF Head(x).k = "s"
    THEN (IF inWord THEN <<word>> ELSE <<>>) \o splitFrom(Tail(x), "", FALSE)
    ELSE splitFrom(Tail(x), word \o Chars(Head(x)), TRUE)

split(x) == splitFrom(x, "", FALSE)

\* the list command.split() returns, as an argument of run
TokenList(tokens) ==
    [type |-> "list", items |-> [i \in 1..Len(tokens) |-> Str(tokens[i])]]

\* The templates and the other values bind is given
Templates ==
    {<<Word("convert"), Space, Field("source"), Space, Word("-resize"),
       Space, Word("64x64"), Space, Field("output")>>,
     <<Space, Word("identify"), Space, Field("source"), Space, Space>>,
     <<Field("source"), Field("output")>>,
     <<Space, Space>>,
     <<>>}

BindValues ==
    {TextValue(x) : x \in Templates}
    \cup {NoneValue, IntValue(0), IntValue(5), ListValue(0), ListValue(1)}

\* The keyword arguments of __call__
Kwargs ==
    {[n \in {"source", "output"} |->
         IF n = "source" THEN TextValue(<<Word("a.gif")>>)
         ELSE TextValue(<<Word("b.gif")>>)],
     [n \in {"source", "output"} |->
         IF n = "source" THEN TextValue(<<Word("con")>>)
         ELSE TextValue(<<Word("vert"), Space, Word("a.gif")>>)],
     [n \in {"source"} |-> TextValue(<<Word("my"), Space, Word("file.gif")>>)],
     [n \in {"source", "output"} |->
         IF n = "source" THEN IntValue(64) ELSE TextValue(<<>>)],
     [n \in {"source", "output"} |-> TextValue(<<>>)]}

NoBind == [via |-> "", arg |-> NoneValue, raised |-> ""]
NoCall ==
    [at |-> -1, template |-> <<>>, kwargs |-> <<>>, tokens |-> <<>>,
     raised |-> "", result |-> -1, done |-> TRUE]

\* __call__ has computed the tokens and has not yet entered run
Pending == ~inv.done /\ inv.at = ncalls

\* __call__ is in run
InRun == ~inv.done /\ inv.at + 1 = callOf["t1"]

\* no method of the Parser is executing
Idle == inv.done /\ pc["t1"] \in {"idle", "done"}

\* Parser(c): lines 60-63, with set_command's lines 78-80
Construct(c) ==
    /\ parser = "none"
    /\ IF ~Truthy(c)
       THEN /\ parser' = "ready"
            /\ command' = <<>>
            /\ bind' = [via |-> "__init__", arg |-> c, raised |-> ""]
            /\ UNCHANGED lastBound
       ELSE IF ~IsString(c)
       THEN /\ parser' = "failed"
            /\ command' = <<>>
            /\ bind' = [via |-> "__init__", arg |-> c, raised |-> "TypeError"]
            /\ UNCHANGED lastBound
       ELSE /\ parser' = "ready"
            /\ command' = strip(c.text)
            /\ bind' = [via |-> "__init__", arg |-> c, raised |-> ""]
            /\ lastBound' = c.text
    /\ UNCHANGED <<inv, dvars, svars, rvars>>

\* set_command(c): lines 78-81
SetCommand(c) ==
    /\ parser = "ready"
    /\ Idle
    /\ IF ~IsString(c)
       THEN /\ bind' = [via |-> "set_command", arg |-> c,
                        raised |-> "TypeError"]
            /\ UNCHANGED <<command, lastBound>>
       ELSE /\ command' = strip(c.text)
            /\ bind' = [via |-> "set_command", arg |-> c, raised |-> ""]
            /\ lastBound' = c.text
    /\ UNCHANGED <<parser, inv, dvars, svars, rvars>>

\* __call__(**kwargs): line 66 and command.split() of line 67
Invoke(kwargs) ==
    /\ parser = "ready"
    /\ Idle
    /\ ncalls < MaxInvokes
    /\ LET r == format(command, kwargs)
       IN  inv' = [at |-> ncalls, template |-> command, kwargs |-> kwargs,
                   tokens |-> IF r.err # "" THEN <<>> ELSE split(r.val),
                   raised |-> r.err, result |-> -1, done |-> r.err # ""]
    /\ UNCHANGED <<parser, command, bind, lastBound, dvars, svars, rvars>>

\* line 67: self.run(command.split())
InvokeRun ==
    /\ Pending
    /\ Call("t1", TokenList(inv.tokens))

\* line 67: return of run's value, or run's error passing through
InvokeReturn ==
    /\ InRun
    /\ pc["t1"] = "done"
    /\ inv' = [inv EXCEPT !.done = TRUE, !.result = returned["t1"],
                          !.raised = raised["t1"]]
    /\ UNCHANGED <<parser, command, bind, lastBound, dvars, svars, rvars>>

\* run called on the Parser directly
DirectInputs ==
    {TokenList(<<>>),
     TokenList(<<"convert", "a.gif", "-resize", "64x64", "b.gif">>),
     TokenList(<<"identify", "my", "file.gif">>)}

RunDirect ==
    /\ parser = "ready"
    /\ Idle
    /\ ncalls < MaxInvokes
    /\ \E a \in DirectInputs : Call("t1", a)

\* A Parser made with no template: the object the other specifications
\* call run on
InitParser ==
    /\ parser = "ready"
    /\ command = <<>>
    /\ bind = [via |-> "__init__", arg |-> NoneValue, raised |-> ""]
    /\ lastBound = <<>>
    /\ inv = NoCall

\* ------------------------------------ Library Locator and Loader (api.py)
\* Python's None, where a path is expected
None == "None"

\* platform.system() of the environments considered
Systems == {"Windows", "Darwin", "Linux", "FreeBSD"}

\* the directory MAGICK_HOME names when it is set
Root == "/opt/im"

\* load_library: versions and options
versions == <<"", "-Q16", "-Q8", "-6.Q16">>
options == <<"", "HDRI">>

\* the pairs in the other order: every version of one option, then the next
productOptionMajor(A, B) ==
    [i \in 1..(Len(A) * Len(B)) |->
        <<A[((i - 1) % Len(A)) + 1], B[((i - 1) \div Len(A)) + 1]>>]

\* itertools.product(A, B): the rightmost element advances on every step
product(A, B) ==
    [i \in 1..(Len(A) * Len(B)) |->
        <<A[((i - 1) \div Len(B)) + 1], B[((i - 1) % Len(B)) + 1]>>]

\* (version + option for version, option in combinations)
suffixes ==
    LET combinations == product(versions, options)
    IN  [i \in 1..Len(combinations) |->
            combinations[i][1] \o combinations[i][2]]

\* os.path.join on the platform
sep(system) == IF system = "Windows" THEN "\\" ELSE "/"
join(system, a, b) == a \o sep(system) \o b

\* ctypes.util.find_library(name) in environment e: the file of the library
\* when the system search resolves the name, None otherwise
SystemFile(system, name) ==
    IF system = "Windows" THEN name \o ".dll"
    ELSE IF system = "Darwin" THEN "lib" \o name \o ".dylib"
    ELSE "lib" \o name \o ".so"
util_find_library(e, name) ==
    IF name \in e.found THEN SystemFile(e.system, name) ELSE None

\* find_library: the names given to the system search
WandName(system, suffix) ==
    IF system = "Windows" THEN "CORE_RL_wand_" \o suffix
    ELSE "MagickWand" \o suffix
MagickName(suffix) == "CORE_RL_magick_" \o suffix

\* find_library: libwand, with the names it gave to the system search
WandLookup(e, suffix) ==
    IF e.magick_home # ""
    THEN [searched |-> <<>>,
          path |->
            IF e.system = "Windows"
            THEN join(e.system, e.magick_home,
                      "CORE_RL_wand_" \o suffix \o ".dll")
            ELSE IF e.system = "Darwin"
            THEN join(e.system, join(e.system, e.magick_home, "lib"),
                      "libMagickWand" \o suffix \o ".dylib")
            ELSE join(e.system, join(e.system, e.magick_home, "lib"),
                      "libMagickWand" \o suffix \o ".so")]
    ELSE [searched |-> <<WandName(e.system, suffix)>>,
          path |-> util_find_library(e, WandName(e.system, suffix))]

\* an auxiliary lookup that always asks the system search on Windows
MagickLookupGeneric(e, suffix) ==
    IF e.system = "Windows"
    THEN [searched |-> <<MagickName(suffix)>>,
          path |-> util_find_library(e, MagickName(suffix))]
    ELSE [searched |-> <<>>, path |-> WandLookup(e, suffix).path]

\* An auxiliary lookup that returns the primary's path on every platform
MagickLookupSame(e, suffix) ==
    [searched |-> <<>>, path |-> WandLookup(e, suffix).path]

\* find_library: libmagick, with the names it gave to the system search
MagickLookup(e, suffix) ==
    IF e.system = "Windows"
    THEN IF e.magick_home # ""
         THEN [searched |-> <<>>,
               path |-> join(e.system, e.magick_home,
                             MagickName(suffix) \o ".dll")]
         ELSE [searched |-> <<MagickName(suffix)>>,
               path |-> util_find_library(e, MagickName(suffix))]
    ELSE [searched |-> <<>>, path |-> WandLookup(e, suffix).path]

\* find_library(suffix)
find_library(e, suffix) ==
    [suffix |-> suffix,
     wand |-> WandLookup(e, suffix).path,
     magick |-> MagickLookup(e, suffix).path,
     searched |-> WandLookup(e, suffix).searched
                  \o MagickLookup(e, suffix).searched]

\* An open that succeeds on every path
CDLLAlways(e, path) == TRUE

\* ctypes.CDLL(path): the file opens or OSError is raised
CDLL(e, path) == path \in e.openable

\* A loop that passes every result of find_library on to ctypes.CDLL
SkippedNever(r) == FALSE

\* A loop that skips a result of find_library only when both paths are None
SkippedIfBothAbsent(r) == r.wand = None /\ r.magick = None

\* load_library: if libwand_path is None or libmagick_path is None: continue
Skipped(r) == r.wand = None \/ r.magick = None

\* ------------------------------------------- wand.api module body (api.py)
\* The exception classes that catch only part of what load_library raises
HandledOnlyOSError == {"OSError"}

\* except (OSError, IOError)
HandledLoadErrors == {"OSError", "IOError"}

\* the msg of the ImportError raised when the library does not load
Url == "http://docs.wand-py.org/en/latest/guide/install.html"
Hints(system) ==
    IF system = "FreeBSD" THEN {"pkg_add -r"}
    ELSE IF system = "Windows" THEN {Url \o "#install-imagemagick-on-windows"}
    ELSE IF system = "Darwin"
    THEN {"brew install freetype imagemagick", "port install imagemagick",
          Url \o "#install-imagemagick-on-mac"}
    ELSE {"apt-get install libmagickwand-dev",
          "yum install ImageMagick-devel", Url}

NoError == [type |-> "", msg |-> ""]
ImportError(msg) == [type |-> "ImportError", msg |-> msg]

\* A declaration pass with no try block around a single declaration
DeclTableUnguarded ==
    [i \in 1..9 |->
        [name |-> <<"AcquireExceptionInfo", "MagickRelinquishMemory",
                    "MagickAutoOrientImage", "DrawGetTextDirection",
                    "DrawGetTextEncoding", "DrawGetTextInterlineSpacing",
                    "DrawSetTextDirection", "DrawSetTextInterlineSpacing",
                    "PushDrawingWand">>[i],
         lib |-> "library", guard |-> ""]]

\* A declaration pass whose inner try blocks all end in pass
DeclTablePassOnly ==
    [i \in 1..9 |->
        [name |-> DeclTableUnguarded[i].name,
         lib |-> "library",
         guard |-> IF i \in {3, 4, 6, 7, 8} THEN "pass" ELSE ""]]

\* The declarations of the module body, in source order: the first and the
\* last one, the release function, the declarations that stand in a try
\* block of their own, and the unguarded declaration between two of them.
\* guard: "" (none), "pass" (except AttributeError: pass), "None" (the name
\* is set to None).
DeclTable ==
    <<[name |-> "AcquireExceptionInfo", lib |-> "libmagick", guard |-> ""],
      [name |-> "MagickRelinquishMemory", lib |-> "library", guard |-> ""],
      [name |-> "MagickAutoOrientImage", lib |-> "library", guard |-> "pass"],
      [name |-> "DrawGetTextDirection", lib |-> "library", guard |-> "None"],
      [name |-> "DrawGetTextEncoding", lib |-> "library", guard |-> ""],
      [name |-> "DrawGetTextInterlineSpacing", lib |-> "library",
       guard |-> "None"],
      [name |-> "DrawSetTextDirection", lib |-> "library", guard |-> "None"],
      [name |-> "DrawSetTextInterlineSpacing", lib |-> "library",
       guard |-> "None"],
      [name |-> "PushDrawingWand", lib |-> "library", guard |-> ""]>>

DeclNames == {DeclTable[i].name : i \in 1..Len(DeclTable)}

\* The declarations at module level of wand.cli, none in a try block
CliDecls ==
    {"MagickCommandGenesis", "AcquireImageInfo", "DestroyImageInfo",
     "CatchException"}

\* The exception raised after the outer except AttributeError
Incompatible ==
    ImportError("MagickWand shared library not found or incompatible")

\* The Registry's state
registry ==
    IF library = 0 THEN "Unloaded"
    ELSE IF declIdx <= Len(DeclTable) THEN "Loaded"
    ELSE "Ready"

\* An import that runs the module body again whatever sys.modules holds
CachedNever == FALSE

\* import wand.api finds the module in sys.modules
Cached == "wand.api" \in sys_modules

\* A module object reachable under the name kept at line 147
ImportableAlias == "wand._api" \in sys_modules /\ ipc \in {"ok", "failed"}

\* A client holds the module's names only after import wand.api returned
Importable == "wand.api" \in sys_modules /\ ipc = "ok"

\* the import statement: the cached module, or a new run of the module body
Import ==
    /\ ipc \in {"unimported", "ok", "failed"}
    /\ nimports < MaxImports
    /\ nimports' = nimports + 1
    /\ IF Cached
       THEN UNCHANGED <<ipc, sufIdx, libwand_path, libmagick_path,
                        tried_paths, libwand, libmagick_h, lookups, searches,
                        opens, library, libmagick, declIdx, declared,
                        unavailable, libc, failure, ioerror, sys_modules>>
       ELSE /\ ipc' = "find"
            /\ sufIdx' = 1
            /\ libwand_path' = None
            /\ libmagick_path' = None
            /\ tried_paths' = <<>>
            /\ libwand' = 0
            /\ libmagick_h' = 0
            /\ lookups' = <<>>
            /\ searches' = <<>>
            /\ opens' = <<>>
            /\ library' = 0
            /\ libmagick' = 0
            /\ declIdx' = 1
            /\ declared' = {}
            /\ unavailable' = {}
            /\ libc' = ""
            /\ failure' = NoError
            /\ ioerror' = <<>>
            /\ sys_modules' = sys_modules \cup {"wand.api", "wand._api"}
    /\ UNCHANGED <<env, nfinds, nloads, cli, invokedIn, dvars, svars, pvars>>

\* load_library: one pass of the loop head, find_library(suffix)
FindLibrary ==
    /\ ipc = "find"
    /\ sufIdx <= Len(suffixes)
    /\ LET r == find_library(env, suffixes[sufIdx])
       IN  /\ lookups' = Append(lookups, r)
           /\ searches' = searches \o r.searched
           /\ nfinds' = nfinds + 1
           /\ IF Skipped(r)
              THEN /\ sufIdx' = sufIdx + 1
                   /\ UNCHANGED <<ipc, libwand_path, libmagick_path>>
              ELSE /\ libwand_path' = r.wand
                   /\ libmagick_path' = r.magick
                   /\ ipc' = "open_wand"
                   /\ UNCHANGED sufIdx
    /\ UNCHANGED <<env, tried_paths, libwand, libmagick_h, opens, library,
                   libmagick, declIdx, declared, unavailable, libc, failure,
                   ioerror, sys_modules, nimports, nloads, cli, invokedIn,
                   dvars, svars, pvars>>

\* load_library: tried_paths.append(libwand_path); ctypes.CDLL(libwand_path)
OpenWand ==
    /\ ipc = "open_wand"
    /\ tried_paths' = Append(tried_paths, libwand_path)
    /\ opens' = Append(opens, [path |-> libwand_path,
                               ok |-> CDLL(env, libwand_path)])
    /\ nloads' = nloads + 1
    /\ IF CDLL(env, libwand_path)
       THEN /\ libwand' = Len(opens) + 1
            /\ IF libwand_path = libmagick_path
               THEN libmagick_h' = Len(opens) + 1 /\ ipc' = "load_return"
               ELSE ipc' = "open_magick" /\ UNCHANGED libmagick_h
            /\ UNCHANGED sufIdx
       ELSE /\ sufIdx' = sufIdx + 1
            /\ ipc' = "find"
            /\ UNCHANGED <<libwand, libmagick_h>>
    /\ UNCHANGED <<env, libwand_path, libmagick_path, lookups, searches,
                   library, libmagick, declIdx, declared, unavailable, libc,
                   failure, ioerror, sys_modules, nimports, nfinds, cli,
                   invokedIn, dvars, svars, pvars>>

\* load_library: tried_paths.append(libmagick_path); ctypes.CDLL(...)
OpenMagick ==
    /\ ipc = "open_magick"
    /\ tried_paths' = Append(tried_paths, libmagick_path)
    /\ opens' = Append(opens, [path |-> libmagick_path,
                               ok |-> CDLL(env, libmagick_path)])
    /\ nloads' = nloads + 1
    /\ IF CDLL(env, libmagick_path)
       THEN /\ libmagick_h' = Len(opens) + 1
            /\ ipc' = "load_return"
            /\ UNCHANGED sufIdx
       ELSE /\ sufIdx' = sufIdx + 1
            /\ ipc' = "find"
            /\ UNCHANGED libmagick_h
    /\ UNCHANGED <<env, libwand_path, libmagick_path, libwand, lookups,
                   searches, library, libmagick, declIdx, declared,
                   unavailable, libc, failure, ioerror, sys_modules, nimports,
                   nfinds, cli, invokedIn, dvars, svars, pvars>>

\* load_library: return libwand, libmagick
LoadReturn ==
    /\ ipc = "load_return"
    /\ ipc' = "bind"
    /\ UNCHANGED <<env, sufIdx, libwand_path, libmagick_path, tried_paths,
                   libwand, libmagick_h, lookups, searches, opens, library,
                   libmagick, declIdx, declared, unavailable, libc, failure,
                   ioerror, sys_modules, nimports, nfinds, nloads, cli,
                   invokedIn, dvars, svars, pvars>>

\* An error that reports the last attempted path only
IOErrorLastPath ==
    IF tried_paths = <<>> THEN <<>> ELSE <<tried_paths[Len(tried_paths)]>>

\* 'cannot find library; tried paths: ' + repr(tried_paths)
IOErrorPaths == tried_paths

\* load_library: the loop ends, raise IOError(... repr(tried_paths))
LoadExhausted ==
    /\ ipc = "find"
    /\ sufIdx > Len(suffixes)
    /\ ioerror' = IOErrorPaths
    /\ failure' = [type |-> "IOError", msg |-> "cannot find library"]
    /\ ipc' = "handler"
    /\ UNCHANGED <<env, sufIdx, libwand_path, libmagick_path, tried_paths,
                   libwand, libmagick_h, lookups, searches, opens, library,
                   libmagick, declIdx, declared, unavailable, libc,
                   sys_modules, nimports, nfinds, nloads, cli, invokedIn,
                   dvars, svars, pvars>>

\* except (OSError, IOError): ... raise ImportError(... + msg); the import
\* ends and wand.api leaves sys.modules, the name of line 147 stays
ImportErrorHandler ==
    /\ ipc = "handler"
    /\ IF failure.type \in HandledLoadErrors
       THEN \E msg \in Hints(env.system) : failure' = ImportError(msg)
       ELSE UNCHANGED failure
    /\ ipc' = "failed"
    /\ sys_modules' = sys_modules \ {"wand.api"}
    /\ UNCHANGED <<env, sufIdx, libwand_path, libmagick_path, tried_paths,
                   libwand, libmagick_h, lookups, searches, opens, library,
                   libmagick, declIdx, declared, unavailable, libc, ioerror,
                   nimports, nfinds, nloads, cli, invokedIn, dvars, svars, pvars>>

\* library = libraries[0]; libmagick = libraries[1]
BindHandles ==
    /\ ipc = "bind"
    /\ library' = libwand
    /\ libmagick' = libmagick_h
    /\ ipc' = "declare"
    /\ UNCHANGED <<env, sufIdx, libwand_path, libmagick_path, tried_paths,
                   libwand, libmagick_h, lookups, searches, opens, declIdx,
                   declared, unavailable, libc, failure, ioerror, sys_modules,
                   nimports, nfinds, nloads, cli, invokedIn, dvars, svars, pvars>>

\* One declaration of the pass inside the outer try
Declare ==
    /\ ipc = "declare"
    /\ declIdx <= Len(DeclTable)
    /\ LET d == DeclTable[declIdx]
       IN  IF d.name \notin env.missing
           THEN /\ declared' = declared \cup {d.name}
                /\ declIdx' = declIdx + 1
                /\ UNCHANGED <<unavailable, failure, ipc, sys_modules>>
           ELSE IF d.guard = "pass"
           THEN /\ declIdx' = declIdx + 1
                /\ UNCHANGED <<declared, unavailable, failure, ipc, sys_modules>>
           ELSE IF d.guard = "None"
           THEN /\ unavailable' = unavailable \cup {d.name}
                /\ declIdx' = declIdx + 1
                /\ UNCHANGED <<declared, failure, ipc, sys_modules>>
           ELSE /\ failure' = Incompatible
                /\ ipc' = "failed"
                /\ sys_modules' = sys_modules \ {"wand.api"}
                /\ UNCHANGED <<declared, unavailable, declIdx>>
    /\ UNCHANGED <<env, sufIdx, libwand_path, libmagick_path, tried_paths,
                   libwand, libmagick_h, lookups, searches, opens, library,
                   libmagick, libc, ioerror, nimports, nfinds, nloads, cli,
                   invokedIn, dvars, svars, pvars>>

\* libc = ...; the module body ends
ResolveLibc ==
    /\ ipc = "declare"
    /\ declIdx > Len(DeclTable)
    /\ libc' = IF env.system = "Windows" THEN "msvcrt"
               ELSE IF env.system = "Darwin" THEN "libc.dylib"
               ELSE IF env.system = "FreeBSD" THEN "c"
               ELSE "libc.so.6"
    /\ ipc' = "ok"
    /\ UNCHANGED <<env, sufIdx, libwand_path, libmagick_path, tried_paths,
                   libwand, libmagick_h, lookups, searches, opens, library,
                   libmagick, declIdx, declared, unavailable, failure, ioerror,
                   sys_modules, nimports, nfinds, nloads, cli, invokedIn,
                   dvars, svars, pvars>>

\* import wand.cli: from .api import library, libmagick, then the
\* declarations of lines 16-27
ImportCli ==
    /\ ipc \in {"ok", "failed"}
    /\ cli # "ok"
    /\ cli' = IF ~Importable THEN "ImportError"
              ELSE IF CliDecls \cap env.missing # {} THEN "AttributeError"
              ELSE "ok"
    /\ UNCHANGED <<env, ipc, sufIdx, libwand_path, libmagick_path,
                   tried_paths, libwand, libmagick_h, lookups, searches,
                   opens, library, libmagick, declIdx, declared, unavailable,
                   libc, failure, ioerror, sys_modules, nimports, nfinds, nloads,
                   invokedIn, dvars, svars, pvars>>

\* A client invokes a declared function f of the module it imported
Use(f) ==
    /\ Importable
    /\ f \in declared \/ (f \in CliDecls /\ cli = "ok")
    /\ invokedIn' = invokedIn \cup {registry}
    /\ UNCHANGED <<env, ipc, sufIdx, libwand_path, libmagick_path,
                   tried_paths, libwand, libmagick_h, lookups, searches,
                   opens, library, libmagick, declIdx, declared, unavailable,
                   libc, failure, ioerror, sys_modules, nimports, nfinds, nloads,
                   cli, dvars, svars, pvars>>

\* ------------------------------------------------------- the environments
Bounded(S, n) == {T \in SUBSET S : Cardinality(T) <= n}

\* the names find_library gives to the system search on a platform
SearchNames(system) ==
    {WandName(system, suffixes[i]) : i \in 1..Len(suffixes)}
    \cup (IF system = "Windows"
          THEN {MagickName(suffixes[i]) : i \in 1..Len(suffixes)}
          ELSE {})

\* the files find_library names under MAGICK_HOME on a platform
HomePaths(system) ==
    LET e == [system |-> system, magick_home |-> Root, found |-> {},
              openable |-> {}, missing |-> {}]
    IN  {WandLookup(e, suffixes[i]).path : i \in 1..Len(suffixes)}
        \cup {MagickLookup(e, suffixes[i]).path : i \in 1..Len(suffixes)}

\* Environments without MAGICK_HOME: some names resolve, some of the
\* resolved files open.  Environments with MAGICK_HOME: some of the files
\* under the root open.  Every declared function is exported.
LoadEnvs ==
    UNION {
        UNION {{[system |-> s, magick_home |-> "", found |-> F,
                 openable |-> O, missing |-> {}] :
                    O \in Bounded({SystemFile(s, n) : n \in F}, MaxOpenable)} :
               F \in Bounded(SearchNames(s), MaxFound)}
        \cup {[system |-> s, magick_home |-> Root, found |-> {},
               openable |-> O, missing |-> {}] :
                  O \in Bounded(HomePaths(s), MaxOpenable)} :
        s \in Systems}

\* An installation on Linux and one on Windows whose libraries open
LinuxEnv ==
    [system |-> "Linux", magick_home |-> "", found |-> {"MagickWand"},
     openable |-> {"libMagickWand.so"}, missing |-> {}]
WindowsEnv ==
    [system |-> "Windows", magick_home |-> "",
     found |-> {"CORE_RL_wand_", "CORE_RL_magick_"},
     openable |-> {"CORE_RL_wand_.dll", "CORE_RL_magick_.dll"},
     missing |-> {}]

\* An installation whose library is found and does not open
BrokenEnv ==
    [system |-> "Linux", magick_home |-> "", found |-> {"MagickWand"},
     openable |-> {}, missing |-> {}]

\* Installations whose libraries lack some of the declared functions
RegEnvs ==
    {[e EXCEPT !.missing = M] :
        e \in {LinuxEnv, WindowsEnv, BrokenEnv},
        M \in Bounded(DeclNames \cup CliDecls, MaxMissing)}

\* Before the first import of wand.api in environment e
InitUnloaded(e) ==
    /\ env = e
    /\ ipc = "unimported"
    /\ sufIdx = 1
    /\ libwand_path = None
    /\ libmagick_path = None
    /\ tried_paths = <<>>
    /\ libwand = 0
    /\ libmagick_h = 0
    /\ lookups = <<>>
    /\ searches = <<>>
    /\ opens = <<>>
    /\ library = 0
    /\ libmagick = 0
    /\ declIdx = 1
    /\ declared = {}
    /\ unavailable = {}
    /\ libc = ""
    /\ failure = NoError
    /\ ioerror = <<>>
    /\ sys_modules = {}
    /\ nimports = 0
    /\ nfinds = 0
    /\ nloads = 0
    /\ cli = "unimported"
    /\ invokedIn = {}

\* wand.api and wand.cli imported on LinuxEnv: the registry the Parser and
\* the owned strings run on
InitBound ==
    /\ env = LinuxEnv
    /\ ipc = "ok"
    /\ sufIdx = 1
    /\ libwand_path = "libMagickWand.so"
    /\ libmagick_path = "libMagickWand.so"
    /\ tried_paths = <<"libMagickWand.so">>
    /\ libwand = 1
    /\ libmagick_h = 1
    /\ lookups = <<find_library(LinuxEnv, "")>>
    /\ searches = <<"MagickWand">>
    /\ opens = <<[path |-> "libMagickWand.so", ok |-> TRUE]>>
    /\ library = 1
    /\ libmagick = 1
    /\ declIdx = Len(DeclTable) + 1
    /\ declared = DeclNames
    /\ unavailable = {}
    /\ libc = "libc.so.6"
    /\ failure = NoError
    /\ ioerror = <<>>
    /\ sys_modules = {"wand.api", "wand._api"}
    /\ nimports = 1
    /\ nfinds = 1
    /\ nloads = 1
    /\ cli = "ok"
    /\ invokedIn = {}

\* ------------------------------------------------- owned strings (api.py)
\* Native addresses: NULL, a buffer allocated by the native library, a string
\* literal in the library's static data, the storage of a host object.
Null == [region |-> "null", n |-> 0, sym |-> ""]
Buf(k) == [region |-> "heap", n |-> k, sym |-> ""]
Static(f) == [region |-> "static", n |-> 0, sym |-> f]
Host(w) == [region |-> "host", n |-> w, sym |-> ""]

\* Declared functions whose restype is c_magick_char_p
OwnedRet ==
    {"MagickToMime", "MagickGetException", "MagickQueryConfigureOption",
     "MagickGetCopyright", "MagickGetImageProperty", "MagickGetImageFormat",
     "MagickGetImageSignature", "PixelGetIteratorException",
     "PixelGetColorAsString", "PixelGetColorAsNormalizedString",
     "PixelGetException", "DrawGetClipPath", "DrawGetFont",
     "DrawGetFontFamily", "DrawGetTextEncoding", "DrawGetVectorGraphics"}

\* Declared functions whose restype is ctypes.c_char_p
PlainRet ==
    {"GetMagickVersion", "GetMagickReleaseDate", "GetMagickQuantumDepth",
     "MagickGetFont", "MagickGetOption", "MagickIdentifyImage",
     "DrawGetException"}

\* Declared functions whose restype is POINTER(c_magick_char_p)
ArrayRet ==
    {"MagickQueryConfigureOptions", "MagickQueryFonts", "MagickQueryFormats"}

restype ==
    [f \in OwnedRet \cup PlainRet \cup ArrayRet |->
        IF f \in OwnedRet THEN "c_magick_char_p"
        ELSE IF f \in PlainRet THEN "c_char_p"
        ELSE "POINTER(c_magick_char_p)"]

\* The native functions that return a const string, owned by the library
ConstReturning ==
    {"GetMagickVersion", "GetMagickReleaseDate", "GetMagickQuantumDepth",
     "MagickGetCopyright"}

\* What a native string function returns: its static literal if it is const,
\* else a fresh buffer, or NULL when it has nothing to return.
NativeString(f) ==
    IF f \in ConstReturning
    THEN {Static(f)}
    ELSE {Null} \cup (IF Len(mem) < MaxBufs THEN {Buf(Len(mem) + 1)} ELSE {})

\* c_magick_char_p suppresses the conversion to a host string: the value of a
\* call declared with it is an instance holding the raw address.
c_magick_char_p(addr) ==
    [addr |-> addr, alive |-> TRUE, dels |-> 0, passed |-> <<>>]

\* The address __del__ hands to MagickRelinquishMemory: self, passed as
\* c_void_p, is the address the wrapper holds.
ReleaseArgByRef(w) == Host(w)
ReleaseArg(w) == wrappers[w].addr

IsLiveBuf(a) == a.region = "heap" /\ a.n \in 1..Len(mem) /\ mem[a.n] = "live"

\* library.MagickRelinquishMemory(a), called for wrapper w: frees a live
\* buffer and does nothing on NULL; any other address is a fault of the
\* native heap (a double or an invalid free).
MagickRelinquishMemory(w, a) ==
    /\ mem' = IF a.region = "heap" /\ a.n \in 1..Len(mem)
              THEN [mem EXCEPT ![a.n] = "freed"]
              ELSE mem
    /\ relBy' = IF a.region = "heap" /\ a.n \in 1..Len(mem)
                THEN [relBy EXCEPT ![a.n] = @ \cup {w}]
                ELSE relBy
    /\ faults' = IF a = Null \/ IsLiveBuf(a) THEN faults ELSE faults \cup {w}

\* c_magick_char_p.__del__ on wrapper w; collected: the wrapper is gone after
Del(w, collected) ==
    /\ wrappers' = [wrappers EXCEPT ![w].dels = @ + 1,
                                    ![w].alive = ~collected,
                                    ![w].passed = Append(@, ReleaseArg(w))]
    /\ MagickRelinquishMemory(w, ReleaseArg(w))

\* A declared call returning one string
CallString(f) ==
    /\ f \in OwnedRet \cup PlainRet
    /\ \E a \in NativeString(f) :
         /\ mem' = IF a.region = "heap" THEN Append(mem, "live") ELSE mem
         /\ relBy' = IF a.region = "heap" THEN Append(relBy, {}) ELSE relBy
         /\ IF restype[f] = "c_magick_char_p"
            THEN /\ Len(wrappers) < MaxWrappers
                 /\ wrappers' = Append(wrappers, c_magick_char_p(a))
            ELSE UNCHANGED wrappers
    /\ UNCHANGED <<arrays, faults, dvars, rvars, pvars>>

\* A declared call returning an array of n owned strings
CallArray(f, n) ==
    /\ f \in ArrayRet
    /\ n >= 1
    /\ Len(mem) + n <= MaxBufs
    /\ arrays' = Append(arrays, [i \in 1..n |-> Buf(Len(mem) + i)])
    /\ mem' = mem \o [i \in 1..n |-> "live"]
    /\ relBy' = relBy \o [i \in 1..n |-> {}]
    /\ UNCHANGED <<wrappers, faults, dvars, rvars, pvars>>

\* Reading element i of a returned array: ctypes builds a new c_magick_char_p
\* instance on the element, on every read.
ReadElement(r, i) ==
    /\ r \in 1..Len(arrays)
    /\ i \in 1..Len(arrays[r])
    /\ Len(wrappers) < MaxWrappers
    /\ wrappers' = Append(wrappers, c_magick_char_p(arrays[r][i]))
    /\ UNCHANGED <<arrays, mem, relBy, faults, dvars, rvars, pvars>>

\* __del__ invoked on a wrapper that stays with its holder
ExplicitDel(w) ==
    /\ w \in 1..Len(wrappers)
    /\ wrappers[w].alive
    /\ wrappers[w].dels < MaxDels
    /\ Del(w, FALSE)
    /\ UNCHANGED <<arrays, dvars, rvars, pvars>>

\* The wrapper is discarded: the runtime invokes __del__ and the wrapper is gone
Collect(w) ==
    /\ w \in 1..Len(wrappers)
    /\ wrappers[w].alive
    /\ Del(w, TRUE)
    /\ UNCHANGED <<arrays, dvars, rvars, pvars>>

InitStr ==
    /\ wrappers = <<>>
    /\ arrays = <<>>
    /\ mem = <<>>
    /\ relBy = <<>>
    /\ faults = {}

Init == InitRun /\ InitStr /\ InitBound /\ InitParser

NextStr ==
    \/ \E f \in OwnedRet \cup PlainRet : CallString(f)
    \/ \E f \in ArrayRet : \E n \in 1..MaxBufs : CallArray(f, n)
    \/ \E r \in 1..Len(arrays) : \E i \in 1..Len(arrays[r]) : ReadElement(r, i)
    \/ \E w \in 1..Len(wrappers) : ExplicitDel(w)
    \/ \E w \in 1..Len(wrappers) : Collect(w)

SpecStr == Init /\ [][NextStr]_vars

\* One statement of run by thread t
Step(t) ==
    \/ CheckSequence(t)
    \/ AcquireImageInfo(t)
    \/ FindUtility(t)
    \/ Marshal(t)
    \/ AcquireExceptionInfo(t)
    \/ MagickCommandGenesis(t)
    \/ CatchException(t)
    \/ DestroyImageInfo(t)
    \/ DestroyExceptionInfo(t)
    \/ Return(t)

\* The dispatcher used from one thread, on every input of Inputs
Next ==
    \/ \E a \in Inputs : Call("t1", a)
    \/ Step("t1")

Spec == Init /\ [][Next]_vars

\* The inputs of the concurrent invocations: one that runs the command, one
\* that fails in find_utility, one that fails in marshaling, one that fails
\* the type check.
ConcInputs ==
    {[type |-> "list", items |-> <<Str("convert"), Str("a.gif")>>],
     [type |-> "list", items |-> <<Str("a.gif")>>],
     [type |-> "list", items |-> <<Str("convert"), [kind |-> "float", val |-> "2.5"]>>],
     [type |-> "int", items |-> <<>>]}

\* run invoked from two threads; the threads interleave between statements
NextConc ==
    \E t \in Threads :
        \/ \E a \in ConcInputs : Call(t, a)
        \/ Step(t)

SpecConc == Init /\ [][NextConc]_vars

\* Before Parser(...) is evaluated
InitCli ==
    /\ InitRun
    /\ InitStr
    /\ InitBound
    /\ parser = "none"
    /\ command = <<>>
    /\ bind = NoBind
    /\ lastBound = <<>>
    /\ inv = NoCall

\* One Parser: constructed, bound, invoked and run
NextCli ==
    \/ \E c \in BindValues : Construct(c)
    \/ \E c \in BindValues : SetCommand(c)
    \/ \E kwargs \in Kwargs : Invoke(kwargs)
    \/ InvokeRun
    \/ InvokeReturn
    \/ RunDirect
    \/ Step("t1")

SpecCli == InitCli /\ [][NextCli]_vars

\* wand.api imported in every environment of LoadEnvs
InitLoad ==
    /\ InitRun
    /\ InitStr
    /\ InitParser
    /\ \E e \in LoadEnvs : InitUnloaded(e)

\* The statements of the module body of wand.api
ModuleBody ==
    \/ FindLibrary
    \/ OpenWand
    \/ OpenMagick
    \/ LoadReturn
    \/ LoadExhausted
    \/ ImportErrorHandler
    \/ BindHandles
    \/ Declare
    \/ ResolveLibc

NextLoad ==
    \/ Import
    \/ ModuleBody

SpecLoad == InitLoad /\ [][NextLoad]_vars

\* wand.api and wand.cli imported, declared functions invoked and run
\* called, in every environment of RegEnvs
InitReg ==
    /\ InitRun
    /\ InitStr
    /\ InitParser
    /\ \E e \in RegEnvs : InitUnloaded(e)

\* Parser.run on the imported modules
ReadyInput == [type |-> "list", items |-> <<Str("convert"), Str("a.gif")>>]
RunReady ==
    /\ Importable
    /\ cli = "ok"
    /\ Call("t1", ReadyInput) \/ Step("t1")

NextReg ==
    \/ Import
    \/ ModuleBody
    \/ ImportCli
    \/ \E f \in DeclNames \cup CliDecls : Use(f)
    \/ RunReady

SpecReg == InitReg /\ [][NextReg]_vars

\* ------------------------------------------------- claims on Parser.run
Ended(t) == pc[t] = "done"

\* positions in t's log of the calls of one native entry point
Calls(t, fn) == {i \in 1..Len(trace[t]) : trace[t][i].fn = fn}

\* the structures allocated by the invocation thread t runs (or ran last)
AllocatedBy(t) == {id \in 1..Len(heap) : heap[id].call = callOf[t]}

IsList(a) == a.type = "list"

AllStrings(items) == \A i \in 1..Len(items) : items[i].kind = "str"

Recognized(items) ==
    /\ Len(items) > 0
    /\ items[1].kind = "str"
    /\ items[1].val \in DOMAIN utilities

UnknownFirstToken(a) ==
    /\ IsList(a)
    /\ Len(a.items) > 0
    /\ a.items[1].kind = "str"
    /\ a.items[1].val \notin DOMAIN utilities

\* C1: a run whose first token is no utility name makes no AcquireImageInfo and
\* no AcquireExceptionInfo call, and ends with a ValueError.
C1_UnknownUtilityAllocatesNothing ==
    \A t \in Threads :
        UnknownFirstToken(arguments[t]) =>
            /\ Calls(t, "AcquireImageInfo") = {}
            /\ Calls(t, "AcquireExceptionInfo") = {}
            /\ Ended(t) => raised[t] = "ValueError"

\* C2: when a run call has ended, with a result or with an error, every
\* structure it allocated has been destroyed exactly once.
C2_CleanupUnconditional ==
    \A t \in Threads :
        Ended(t) => \A id \in AllocatedBy(t) : heap[id].destroyed = 1

\* C3: a run on n string tokens with a recognized utility name allocates one
\* ImageInfo and one ExceptionInfo, dispatches once with count n, drains once
\* and destroys each structure once, whatever the dispatch result.
C3_RecognizedRunCallsEachOnce ==
    \A t \in Threads :
        ( /\ Ended(t)
          /\ IsList(arguments[t])
          /\ Recognized(arguments[t].items)
          /\ AllStrings(arguments[t].items) ) =>
            /\ raised[t] = ""
            /\ returned[t] \in {0, 1}
            /\ Cardinality(Calls(t, "AcquireImageInfo")) = 1
            /\ Cardinality(Calls(t, "AcquireExceptionInfo")) = 1
            /\ Cardinality(Calls(t, "MagickCommandGenesis")) = 1
            /\ \A i \in Calls(t, "MagickCommandGenesis") :
                   trace[t][i].n = Len(arguments[t].items)
            /\ Cardinality(Calls(t, "CatchException")) = 1
            /\ Cardinality(Calls(t, "DestroyImageInfo")) = 1
            /\ Cardinality(Calls(t, "DestroyExceptionInfo")) = 1
            /\ Cardinality(AllocatedBy(t)) = 2
            /\ \A id \in AllocatedBy(t) : heap[id].destroyed = 1

\* a two-token run of a recognized utility has ended with the failure result
C3_Witness ==
    \E t \in Threads :
        /\ Ended(t)
        /\ IsList(arguments[t])
        /\ Recognized(arguments[t].items)
        /\ AllStrings(arguments[t].items)
        /\ Len(arguments[t].items) = 2
        /\ returned[t] = 0

\* C4: run on a value that is no sequence calls no native entry point and
\* allocates nothing, and ends with a TypeError.
C4_NonSequenceRejectedFirst ==
    \A t \in Threads :
        (pc[t] # "idle" /\ ~IsList(arguments[t])) =>
            /\ trace[t] = <<>>
            /\ AllocatedBy(t) = {}
            /\ Ended(t) => raised[t] = "TypeError"

\* a run on a set of tokens has ended
C4_Witness ==
    \E t \in Threads :
        /\ Ended(t)
        /\ arguments[t].type = "set"
        /\ raised[t] = "TypeError"

\* C5: a run on a sequence with a non-string element makes no AcquireImageInfo
\* call and ends with a TypeError.
C5_NonStringElementRejectedFirst ==
    \A t \in Threads :
        (IsList(arguments[t]) /\ ~AllStrings(arguments[t].items)) =>
            /\ Calls(t, "AcquireImageInfo") = {}
            /\ Ended(t) => raised[t] = "TypeError"

\* the structures a logged native call was given
Given(e) == {e.ii, e.ei} \ {0}

Uses == {"MagickCommandGenesis", "CatchException", "DestroyImageInfo",
         "DestroyExceptionInfo"}

\* C6: with two threads in run, every structure a dispatch, drain or destroy
\* call is given was allocated by the same invocation and is live at that
\* call, and no structure is destroyed twice.
C6_ConcurrentRunsShareNothing ==
    /\ \A t \in Threads : \A i \in 1..Len(trace[t]) :
           trace[t][i].fn \in Uses =>
               /\ trace[t][i].live
               /\ Given(trace[t][i]) # {}
               /\ Given(trace[t][i]) \subseteq AllocatedBy(t)
    /\ \A id \in 1..Len(heap) : heap[id].destroyed <= 1

\* both threads are inside run, past their allocations
C6_Witness ==
    /\ pc["t1"] = "catch"
    /\ pc["t2"] = "destroy_exception"
    /\ image_info["t1"] # image_info["t2"]

\* ------------------------------------- claims on the statements of run
Fns(t) == [i \in 1..Len(trace[t]) |-> trace[t][i].fn]

NativeOrder ==
    <<"AcquireImageInfo", "AcquireExceptionInfo", "MagickCommandGenesis",
      "CatchException", "DestroyImageInfo", "DestroyExceptionInfo">>

\* C23: from the dispatch on, ok is the integer MagickCommandGenesis
\* returned; the drain and the destroys leave it alone, no error is raised
\* after the dispatch, and run returns that integer.
C23_ReturnsDispatchResult ==
    \A t \in Threads : \A i \in Calls(t, "MagickCommandGenesis") :
        /\ ok[t] = trace[t][i].ret
        /\ raised[t] = ""
        /\ Ended(t) => returned[t] = trace[t][i].ret
        /\ returned[t] # -1 => returned[t] = trace[t][i].ret

C23_Witness ==
    /\ Ended("t1")
    /\ Len(trace["t1"]) = 6
    /\ trace["t1"][3].ret = 1
    /\ returned["t1"] = 1

\* C24: the native calls of one run are a prefix of AcquireImageInfo,
\* AcquireExceptionInfo, MagickCommandGenesis, CatchException,
\* DestroyImageInfo, DestroyExceptionInfo; the utility is resolved and argv
\* marshaled between the two allocations, run returns after the last
\* destroy, and no call is given a destroyed structure.
C24_FixedOrder ==
    \A t \in Threads :
        /\ Fns(t) = SubSeq(NativeOrder, 1, Len(trace[t]))
        /\ \A i \in 1..Len(trace[t]) : trace[t][i].live
        /\ pc[t] = "find_utility" => Len(trace[t]) = 1 /\ func[t] = ""
        /\ pc[t] = "marshal" =>
              Len(trace[t]) = 1 /\ func[t] # "" /\ c_arguments[t] = <<>>
        /\ pc[t] = "acquire_exception" =>
              /\ Len(trace[t]) = 1
              /\ func[t] # ""
              /\ Len(c_arguments[t]) = Len(arguments[t].items)
        /\ Len(trace[t]) >= 2 => func[t] # "" /\ c_arguments[t] # <<>>
        /\ pc[t] = "return" => Len(trace[t]) = 6
        /\ returned[t] # -1 => Len(trace[t]) = 6
        /\ (Ended(t) /\ raised[t] = "") => Len(trace[t]) = 6

C24_Witness ==
    /\ pc["t1"] = "destroy_image_info"
    /\ Fns("t1") = SubSeq(NativeOrder, 1, 4)
    /\ Live(heap, image_info["t1"])
    /\ Live(heap, exception["t1"])

\* C25: every MagickCommandGenesis call is given the ImageInfo and the
\* ExceptionInfo this run allocated before, both live, the entry point of
\* the first token, the number of tokens, all tokens in order and a null
\* metadata slot.
C25_DispatchArguments ==
    \A t \in Threads : \A i \in Calls(t, "MagickCommandGenesis") :
        LET e == trace[t][i]
            items == arguments[t].items
        IN  /\ \E j \in 1..(i - 1) :
                  trace[t][j].fn = "AcquireImageInfo" /\ trace[t][j].ret = e.ii
            /\ \E j \in 1..(i - 1) :
                  trace[t][j].fn = "AcquireExceptionInfo"
                  /\ trace[t][j].ret = e.ei
            /\ {e.ii, e.ei} \subseteq AllocatedBy(t)
            /\ heap[e.ii].kind = "ImageInfo"
            /\ heap[e.ei].kind = "ExceptionInfo"
            /\ e.live
            /\ e.fp = utilities[items[1].val]
            /\ e.n = Len(items)
            /\ Len(e.argv) = Len(items)
            /\ \A k \in 1..Len(items) : e.argv[k] = items[k].val
            /\ e.meta = "NULL"

C25_Witness ==
    /\ pc["t1"] = "catch"
    /\ arguments["t1"].items = <<Str("identify"), Str("a.gif")>>
    /\ trace["t1"][3].fp = "IdentifyImageCommand"
    /\ trace["t1"][3].argv = <<"identify", "a.gif">>

\* C27: a run that allocated an ExceptionInfo, dispatched or drained was
\* given a sequence of strings whose first token is a utility name; a run
\* that ended with an error allocated no ExceptionInfo and called neither
\* MagickCommandGenesis nor CatchException.
C27_DispatcherErrorsBeforeExceptionInfo ==
    \A t \in Threads :
        LET late == Calls(t, "AcquireExceptionInfo")
                    \cup Calls(t, "MagickCommandGenesis")
                    \cup Calls(t, "CatchException")
        IN  /\ late # {} =>
                  /\ IsList(arguments[t])
                  /\ Recognized(arguments[t].items)
                  /\ AllStrings(arguments[t].items)
            /\ raised[t] # "" =>
                  /\ late = {}
                  /\ \A id \in AllocatedBy(t) : heap[id].kind # "ExceptionInfo"

C27_Witness ==
    /\ Ended("t1")
    /\ raised["t1"] = "TypeError"
    /\ arguments["t1"].items = <<Str("convert"), [kind |-> "float", val |-> "2.5"]>>
    /\ Len(trace["t1"]) = 1

\* --------------------------------------------- claims on owned strings
Wrappers == 1..Len(wrappers)

\* C7: for a wrapper holding a native buffer, the deallocator is invoked on
\* that buffer at most once, and exactly once when the wrapper has been
\* discarded, however often its release is triggered.
C7_NonNullReleasedExactlyOnce ==
    \A w \in Wrappers :
        wrappers[w].addr.region = "heap" =>
            /\ Len(wrappers[w].passed) <= 1
            /\ ~wrappers[w].alive => Len(wrappers[w].passed) = 1

\* C8: no native buffer is passed to the deallocator by two distinct wrapper
\* instances.
C8_SingleOwnerRelease ==
    \A k \in 1..Len(relBy) : Cardinality(relBy[k]) <= 1

\* C9: a wrapper holding NULL calls the deallocator on every release (no null
\* check of its own), passes it nothing but NULL, and its release is no fault.
C9_NullReleaseSafe ==
    \A w \in Wrappers :
        wrappers[w].addr = Null =>
            /\ Len(wrappers[w].passed) = wrappers[w].dels
            /\ \A i \in 1..Len(wrappers[w].passed) : wrappers[w].passed[i] = Null
            /\ w \notin faults

\* a NULL wrapper has been released twice and is gone
C9_Witness ==
    \E w \in Wrappers :
        /\ wrappers[w].addr = Null
        /\ ~wrappers[w].alive
        /\ wrappers[w].dels = 2

\* C10: no owned wrapper is the value of a const-returning native function,
\* and no library-owned literal is passed to the deallocator.
C10_ConstStringsNeverOwned ==
    \A w \in Wrappers :
        /\ wrappers[w].addr.region # "static"
        /\ \A i \in 1..Len(wrappers[w].passed) :
               wrappers[w].passed[i].region # "static"

\* ------------------------------------------------- claims on the registry
ImportEnded == ipc \in {"ok", "failed"}

\* the declarations of wand.api that stand in a try block of their own
OwnTry ==
    {"MagickAutoOrientImage", "DrawGetTextDirection",
     "DrawGetTextInterlineSpacing", "DrawSetTextDirection",
     "DrawSetTextInterlineSpacing"}

C13_LoadFailureFatalWithHint ==
    sufIdx > Len(suffixes) =>
        /\ ipc \in {"find", "handler", "failed"}
        /\ registry = "Unloaded"
        /\ library = 0 /\ libmagick = 0
        /\ declared = {} /\ unavailable = {}
        /\ libc = ""
        /\ ipc = "failed" =>
              /\ failure.type = "ImportError"
              /\ failure.msg # ""
              /\ failure.msg \in Hints(env.system)
              /\ "wand.api" \notin sys_modules

C13_Witness ==
    /\ sufIdx > Len(suffixes)
    /\ ipc = "failed"
    /\ env.system = "Darwin"
    /\ opens # <<>>

\* C14: once the registry is Ready no step (invoking a declared function,
\* run, importing the module again) performs a find_library call or a
\* ctypes.CDLL call.
C14_InitIdempotent ==
    [][registry = "Ready" =>
          /\ nfinds' = nfinds /\ nloads' = nloads
          /\ lookups' = lookups /\ opens' = opens
          /\ searches' = searches]_vars

C14_Witness ==
    /\ registry = "Ready"
    /\ nimports = 2
    /\ invokedIn # {}
    /\ returned["t1"] # -1

\* ------------------------------------- claims on the Locator and Loader
\* a result of find_library with two paths, and one whose files all open
Viable(r) == r.wand # None /\ r.magick # None
FullyOpens(r) ==
    Viable(r) /\ r.wand \in env.openable /\ r.magick \in env.openable

\* the opens a candidate takes: the primary, then the auxiliary when the
\* primary opened and the auxiliary is another path
OpensOf(r) ==
    IF ~Viable(r) THEN <<>>
    ELSE IF r.wand \notin env.openable
    THEN <<[path |-> r.wand, ok |-> FALSE]>>
    ELSE IF r.magick = r.wand THEN <<[path |-> r.wand, ok |-> TRUE]>>
    ELSE <<[path |-> r.wand, ok |-> TRUE],
           [path |-> r.magick, ok |-> r.magick \in env.openable]>>

RECURSIVE OpensOfAll(_)
OpensOfAll(ls) ==
    IF ls = <<>> THEN <<>> ELSE OpensOf(Head(ls)) \o OpensOfAll(Tail(ls))

IsPrefix(a, b) == Len(a) <= Len(b) /\ a = SubSeq(b, 1, Len(a))

LoaderReturned == ipc \in {"load_return", "bind"} \/ library # 0

\* C15: the opens follow the order of the lookups, a failed open is passed
\* over, the handles returned are those of the first candidate whose opens
\* all succeed, nothing is looked up or opened after it, and a candidate
\* whose primary opened and whose auxiliary failed is not returned.
C15_FirstFullyOpeningCandidate ==
    /\ IsPrefix(opens, OpensOfAll(lookups))
    /\ ipc \notin {"open_wand", "open_magick"} => opens = OpensOfAll(lookups)
    /\ \A i \in 1..(Len(lookups) - 1) : ~FullyOpens(lookups[i])
    /\ LoaderReturned =>
          /\ FullyOpens(Last(lookups))
          /\ libwand # 0 /\ libmagick_h # 0
          /\ opens[libwand] = [path |-> Last(lookups).wand, ok |-> TRUE]
          /\ opens[libmagick_h] = [path |-> Last(lookups).magick, ok |-> TRUE]
    /\ library # 0 => library = libwand /\ libmagick = libmagick_h
    /\ (libwand # 0 /\ ~FullyOpens(Last(lookups))) => ~LoaderReturned

C15_Witness ==
    /\ env.system = "Windows"
    /\ Len(opens) >= 4
    /\ opens[1].ok /\ ~opens[2].ok
    /\ opens[3].path = lookups[2].wand
    /\ libwand = 1 /\ library = 0
    /\ ipc = "failed"

\* C16: the IOError of an exhausted search lists the paths of the attempted
\* opens, in the order of the attempts, and no other path.
C16_ErrorListsAttemptedPaths ==
    (sufIdx > Len(suffixes) /\ ipc \in {"handler", "failed"}) =>
        ioerror = [i \in 1..Len(opens) |-> opens[i].path]

C16_Witness ==
    /\ sufIdx > Len(suffixes)
    /\ ipc = "failed"
    /\ env.system = "Windows"
    /\ Len(ioerror) > Len(lookups)
    /\ \E i \in 1..Len(lookups) :
          /\ Viable(lookups[i])
          /\ lookups[i].wand \notin env.openable
          /\ \A j \in 1..Len(ioerror) : ioerror[j] # lookups[i].magick

\* C17: the suffixes are looked up in the order "", "HDRI", "-Q16",
\* "-Q16HDRI", "-Q8", "-Q8HDRI", "-6.Q16", "-6.Q16HDRI", each at most once.
C17_SuffixOrder ==
    LET order == <<"", "HDRI", "-Q16", "-Q16HDRI", "-Q8", "-Q8HDRI",
                   "-6.Q16", "-6.Q16HDRI">>
    IN  /\ Len(lookups) <= Len(order)
        /\ \A i \in 1..Len(lookups) : lookups[i].suffix = order[i]

C17_Witness ==
    /\ Len(lookups) = 8
    /\ lookups[8].suffix = "-6.Q16HDRI"
    /\ library # 0

\* C18 as stated: after a lookup that yields a primary and an auxiliary
\* path no further suffix is looked up.
C18_StopsAtFirstViable ==
    \A i \in 1..(Len(lookups) - 1) : ~Viable(lookups[i])

\* C18 amended: the suffix search stops at the first combination that
\* yields a primary and an auxiliary path whose opens succeed, and not
\* before; a combination that yields both paths but fails to open is
\* followed by the lookup of the next suffix.
C18_StopsAtFirstViableThatOpens ==
    /\ \A i \in 1..(Len(lookups) - 1) :
          Viable(lookups[i]) =>
              \/ lookups[i].wand \notin env.openable
              \/ lookups[i].magick \notin env.openable
    /\ (ipc \notin {"unimported", "find", "open_wand", "open_magick"}
        /\ Len(lookups) < Len(suffixes)) =>
          /\ lookups[Len(lookups)].wand \in env.openable
          /\ lookups[Len(lookups)].magick \in env.openable

C18_Witness ==
    /\ Len(lookups) >= 2
    /\ Viable(lookups[1])
    /\ lookups[1].wand \notin env.openable
    /\ ipc = "ok"

\* C19: with MAGICK_HOME set no name is given to ctypes.util.find_library,
\* and every path find_library returns is a library file under the root.
C19_OverrideSkipsSystemSearch ==
    env.magick_home # "" =>
        /\ searches = <<>>
        /\ \A i \in 1..Len(lookups) :
              LET s == env.system
                  dir == IF s = "Windows" THEN env.magick_home
                         ELSE env.magick_home \o "/lib"
                  files == {dir \o sep(s) \o SystemFile(s, n) :
                               n \in SearchNames(s)}
              IN  lookups[i].wand \in files /\ lookups[i].magick \in files

C19_Witness ==
    /\ env.magick_home # ""
    /\ env.system = "Windows"
    /\ Len(lookups) >= 2
    /\ ipc = "ok"

\* C20: off Windows find_library returns one path twice, a candidate takes
\* one open and its handle is both library and libmagick; on Windows the
\* two paths differ and a loaded candidate took two opens and two handles.
C20_AuxiliaryFile ==
    /\ \A i \in 1..Len(lookups) :
          IF env.system = "Windows"
          THEN Viable(lookups[i]) => lookups[i].wand # lookups[i].magick
          ELSE lookups[i].wand = lookups[i].magick
    /\ library # 0 =>
          IF env.system = "Windows"
          THEN /\ libmagick = library + 1
               /\ libmagick = Len(opens)
               /\ opens[library].path # opens[libmagick].path
          ELSE /\ libmagick = library
               /\ library = Len(opens)
               /\ Cardinality({i \in 1..Len(opens) :
                                  opens[i].path = opens[library].path}) = 1

C20_Witness ==
    /\ env.system = "Windows"
    /\ ipc = "ok"
    /\ library = 2
    /\ libmagick = 3

\* C26: a suffix for which find_library returns None for a path takes no
\* open and adds nothing to tried_paths, raises nothing, and is followed by
\* the next suffix.
C26_NonViableSkippedSilently ==
    LET viable == {i \in 1..Len(lookups) : Viable(lookups[i])}
        paths == {lookups[i].wand : i \in viable}
                 \cup {lookups[i].magick : i \in viable}
    IN  /\ \A j \in 1..Len(opens) : opens[j].path \in paths
        /\ \A j \in 1..Len(tried_paths) : tried_paths[j] \in paths
        /\ \A j \in 1..Len(ioerror) : ioerror[j] \in paths
        /\ Len(opens) <= 2 * Cardinality(viable)
        /\ \A i \in 1..Len(lookups) :
              ~Viable(lookups[i]) =>
                  /\ sufIdx > i
                  /\ sufIdx <= Len(suffixes) => failure = NoError

C26_Witness ==
    /\ env.system = "Windows"
    /\ Len(lookups) >= 2
    /\ lookups[1].wand # None
    /\ lookups[1].magick = None
    /\ lookups[2].suffix = "HDRI"
    /\ ipc = "failed"
    /\ opens = <<>>
    /\ ioerror = <<>>

\* C29: when the declaration pass has ended, each of DrawGetTextDirection,
\* DrawGetTextInterlineSpacing, DrawSetTextDirection and
\* DrawSetTextInterlineSpacing is declared if the library has it and None
\* if not, whatever holds for the other three; a pass on a library that
\* lacks only some of these four and MagickAutoOrientImage does not abort.
C29_OptionalDrawFunctions ==
    LET four == {"DrawGetTextDirection", "DrawGetTextInterlineSpacing",
                 "DrawSetTextDirection", "DrawSetTextInterlineSpacing"}
        five == four \cup {"MagickAutoOrientImage"}
    IN  /\ unavailable \subseteq four
        /\ registry = "Ready" =>
              \A n \in four :
                  IF n \in env.missing
                  THEN n \in unavailable /\ n \notin declared
                  ELSE n \in declared /\ n \notin unavailable
        /\ (library # 0 /\ (env.missing \cap DeclNames) \subseteq five) =>
              failure = NoError

C29_Witness ==
    /\ registry = "Ready"
    /\ ipc = "ok"
    /\ env.missing = {"DrawSetTextDirection"}
    /\ unavailable = {"DrawSetTextDirection"}
    /\ "DrawSetTextInterlineSpacing" \in declared

\* ------------------------------------- claims on bind and invoke
\* the text a value is substituted as
ValuePieces(v) ==
    IF v.kind = "str" THEN v.text ELSE <<[k |-> "w", s |-> ToString(v.val)]>>

\* the first n pieces of x with every field replaced by its value
RECURSIVE Substituted(_, _, _)
Substituted(x, kw, n) ==
    IF n = 0 THEN <<>>
    ELSE Substituted(x, kw, n - 1)
         \o (IF x[n].k = "f" THEN ValuePieces(kw[x[n].s]) ELSE <<x[n]>>)

\* the whitespace-separated tokens of the first n pieces of y
RECURSIVE TokensTo(_, _)
TokensTo(y, n) ==
    IF n = 0 THEN <<>>
    ELSE LET prev == TokensTo(y, n - 1)
         IN  IF y[n].k = "s" THEN prev
             ELSE IF n > 1 /\ y[n - 1].k # "s"
                  THEN [prev EXCEPT ![Len(prev)] = @ \o y[n].s]
             ELSE Append(prev, y[n].s)

\* the keyword arguments fill every field of the template
Filled(x, kw) == \A i \in 1..Len(x) : x[i].k = "f" => x[i].s \in DOMAIN kw

ExpectedTokens(x, kw) ==
    LET y == Substituted(x, kw, Len(x)) IN TokensTo(y, Len(y))

\* x without its leading and trailing whitespace
Trim(x) ==
    LET text == {i \in 1..Len(x) : x[i].k # "s"}
    IN  IF text = {} THEN <<>>
        ELSE SubSeq(x, CHOOSE i \in text : \A j \in text : i <= j,
                       CHOOSE i \in text : \A j \in text : i >= j)

\* C21: __call__ with keyword arguments that fill the fields of the stored
\* template calls run on the tokens of the substituted template, split on
\* whitespace; the native dispatch gets these tokens, and __call__ ends
\* with the value run returned or the error run raised.
C21_InvokeIsRunOnTokens ==
    (inv.at >= 0 /\ Filled(inv.template, inv.kwargs)) =>
        LET tokens == ExpectedTokens(inv.template, inv.kwargs)
        IN  /\ inv.tokens = tokens
            /\ ~inv.done => inv.raised = ""
            /\ callOf["t1"] = inv.at + 1 =>
                  /\ arguments["t1"].type = "list"
                  /\ Len(arguments["t1"].items) = Len(tokens)
                  /\ \A i \in 1..Len(tokens) :
                        arguments["t1"].items[i] = Str(tokens[i])
                  /\ \A i \in Calls("t1", "MagickCommandGenesis") :
                        trace["t1"][i].argv = tokens
                  /\ inv.done =>
                        /\ Ended("t1")
                        /\ inv.result = returned["t1"]
                        /\ inv.raised = raised["t1"]
            /\ inv.done => callOf["t1"] >= inv.at + 1

C21_Witness ==
    /\ inv.done
    /\ inv.result = 1
    /\ inv.template =
          <<Word("convert"), Space, Field("source"), Space, Word("-resize"),
            Space, Word("64x64"), Space, Field("output")>>
    /\ callOf["t1"] = inv.at + 1
    /\ trace["t1"][3].argv = <<"convert", "a.gif", "-resize", "64x64", "b.gif">>

\* C22: every constructor or set_command call given a value that is no
\* string (other than the constructor's default None) ended with a
\* TypeError.
C22_NonStringBindRaises ==
    (bind.via # "" /\ ~IsString(bind.arg) /\ bind.arg # NoneValue) =>
        bind.raised = "TypeError"

\* C28: MagickCommandGenesis is never called with count 0; run on an empty
\* list ends with an error before the dispatch, and so does __call__ on an
\* empty stored template.
C28_EmptyCommandNeverDispatched ==
    /\ \A i \in Calls("t1", "MagickCommandGenesis") : trace["t1"][i].n >= 1
    /\ (pc["t1"] # "idle" /\ arguments["t1"].items = <<>>) =>
          /\ Calls("t1", "MagickCommandGenesis") = {}
          /\ Ended("t1") => raised["t1"] # ""
    /\ (inv.at >= 0 /\ inv.template = <<>>) =>
          /\ inv.tokens = <<>>
          /\ callOf["t1"] = inv.at + 1 => arguments["t1"].items = <<>>
          /\ inv.done => inv.raised = "IndexError" /\ inv.result = -1

C28_Witness ==
    /\ bind = [via |-> "__init__", arg |-> NoneValue, raised |-> ""]
    /\ inv.at = 0
    /\ inv.done
    /\ inv.raised = "IndexError"
    /\ Len(trace["t1"]) = 1

\* C30: the stored template is the trimmed argument of the last bind that
\* returned, or empty; it changes only in a bind that returns, to the
\* trimmed argument of that bind; a bind that raises TypeError, run and
\* __call__ leave it as it is.
C30_TemplateFrame ==
    /\ [](command = Trim(lastBound))
    /\ [][command' # command =>
            /\ bind'.raised = ""
            /\ IsString(bind'.arg)
            /\ command' = Trim(bind'.arg.text)
            /\ inv' = inv /\ pc' = pc]_vars
    /\ [][(bind'.raised = "TypeError" \/ inv' # inv \/ pc' # pc) =>
            command' = command]_vars

C30_Witness ==
    /\ bind.via = "set_command"
    /\ bind.raised = "TypeError"
    /\ command = <<Word("identify"), Space, Field("source")>>
    /\ inv.done
    /\ inv.at = 0
    /\ inv.raised = "ValueError"

====
